---- MODULE Spec2Model ----
(***************************************************************************)
(* The Code Generation page (src/app/code-generation/page.tsx) as a state  *)
(* machine: the component state of CodeGenerationPage, the generateCode    *)
(* handler with its 2000 ms timer, the template renderer generateMockCode, *)
(* the download file name, and the toast hook (src/unnamed/part_000).      *)
(*                                                                         *)
(* Strings are TLA+ strings; the templates are the source's template       *)
(* literals, line by line.  The clock counts ticks of Date.now(); two      *)
(* readings in the same tick give the same value.                          *)
(***************************************************************************)
EXTENDS Integers, Sequences, FiniteSets, TLC

(* ------------------------------ bounds -------------------------------- *)

\* generateCode invocations explored by Spec, SpecOverlap and FairOverlap.
MaxCalls == 3
\* Last clock tick explored by Spec, SpecOverlap and FairOverlap.
MaxNow == 7
\* generateCode invocations explored by SpecRetention.
RetentionCalls == 11

(* ------------------------- program constants -------------------------- *)

\* setTimeout(resolve, 2000): the simulated latency, in clock ticks of 1000 ms.
Delay == 2
\* "generated_code: Stores generated code (max 10 entries)".
MaxEntries == 10

\* JavaScript's undefined.
Undefined == "<undefined>"
\* No continuation of generateCode is executing.
NoRun == [pc |-> "none"]

\* The value lists of the two Select controls.
languages == {"javascript", "python", "java", "typescript", "go", "rust", "cpp", "csharp"}
codeTypes == {"function", "class", "api", "component", "algorithm", "test", "config", "script"}

(* --------------------------- string helpers --------------------------- *)

\* The characters String.prototype.trim removes that the inputs below use.
WhiteSpace == {" ", "\t", "\n", "\r", "\f"}

RECURSIVE trimStart(_)
trimStart(s) ==
    IF Len(s) > 0 /\ SubSeq(s, 1, 1) \in WhiteSpace
    THEN trimStart(SubSeq(s, 2, Len(s)))
    ELSE s

RECURSIVE trimEnd(_)
trimEnd(s) ==
    IF Len(s) > 0 /\ SubSeq(s, Len(s), Len(s)) \in WhiteSpace
    THEN trimEnd(SubSeq(s, 1, Len(s) - 1))
    ELSE s

\* prompt.trim()
trim(s) == trimEnd(trimStart(s))

\* sub occurs in s as a contiguous substring.
Contains(s, sub) ==
    \E i \in 1..(Len(s) - Len(sub) + 1) : SubSeq(s, i, i + Len(sub) - 1) = sub

(* ------------------------------ renderer ------------------------------ *)

\* page.tsx lines 94-127: the template literal, line by line.
TplJavascriptFunction(prompt) ==
       "// Generated JavaScript function based on: \""
    \o prompt
    \o "\"\n"
    \o "function processData(input) {\n"
    \o "    try {\n"
    \o "        // Validate input\n"
    \o "        if (!input || typeof input !== 'object') {\n"
    \o "            throw new Error('Invalid input provided');\n"
    \o "        }\n"
    \o "        \n"
    \o "        // Process the data\n"
    \o "        const result = {\n"
    \o "            processed: true,\n"
    \o "            timestamp: new Date().toISOString(),\n"
    \o "            data: input\n"
    \o "        };\n"
    \o "        \n"
    \o "        // Apply transformations\n"
    \o "        if (input.items && Array.isArray(input.items)) {\n"
    \o "            result.data.items = input.items.map(item => ({\n"
    \o "                ...item,\n"
    \o "                processed: true\n"
    \o "            }));\n"
    \o "        }\n"
    \o "        \n"
    \o "        return result;\n"
    \o "    } catch (error) {\n"
    \o "        console.error('Processing failed:', error);\n"
    \o "        return { error: error.message };\n"
    \o "    }\n"
    \o "}\n"
    \o "\n"
    \o "// Usage example\n"
    \o "const sampleData = { items: [{ id: 1, name: 'test' }] };\n"
    \o "const result = processData(sampleData);\n"
    \o "console.log(result);"

\* page.tsx lines 131-178: the template literal, line by line.
TplJavascriptApi(prompt) ==
       "// Generated Express.js API endpoint based on: \""
    \o prompt
    \o "\"\n"
    \o "const express = require('express');\n"
    \o "const router = express.Router();\n"
    \o "\n"
    \o "// Middleware for validation\n"
    \o "const validateRequest = (req, res, next) => {\n"
    \o "    const { body } = req;\n"
    \o "    \n"
    \o "    if (!body || Object.keys(body).length === 0) {\n"
    \o "        return res.status(400).json({\n"
    \o "            error: 'Request body is required'\n"
    \o "        });\n"
    \o "    }\n"
    \o "    \n"
    \o "    next();\n"
    \o "};\n"
    \o "\n"
    \o "// Main API endpoint\n"
    \o "router.post('/api/process', validateRequest, async (req, res) => {\n"
    \o "    try {\n"
    \o "        const { data } = req.body;\n"
    \o "        \n"
    \o "        // Process the request\n"
    \o "        const processedData = {\n"
    \o "            id: Date.now(),\n"
    \o "            originalData: data,\n"
    \o "            processed: true,\n"
    \o "            timestamp: new Date().toISOString()\n"
    \o "        };\n"
    \o "        \n"
    \o "        // Simulate async processing\n"
    \o "        await new Promise(resolve => setTimeout(resolve, 100));\n"
    \o "        \n"
    \o "        res.status(200).json({\n"
    \o "            success: true,\n"
    \o "            data: processedData\n"
    \o "        });\n"
    \o "        \n"
    \o "    } catch (error) {\n"
    \o "        console.error('API Error:', error);\n"
    \o "        res.status(500).json({\n"
    \o "            error: 'Internal server error',\n"
    \o "            message: error.message\n"
    \o "        });\n"
    \o "    }\n"
    \o "});\n"
    \o "\n"
    \o "module.exports = router;"

\* page.tsx lines 184-230: the template literal, line by line.
TplPythonFunction(prompt) ==
       "# Generated Python function based on: \""
    \o prompt
    \o "\"\n"
    \o "from typing import Dict, Any, Optional\n"
    \o "import json\n"
    \o "from datetime import datetime\n"
    \o "\n"
    \o "def process_data(input_data: Dict[str, Any]) -> Dict[str, Any]:\n"
    \o "    \"\"\"\n"
    \o "    Process input data and return structured result.\n"
    \o "    \n"
    \o "    Args:\n"
    \o "        input_data: Dictionary containing data to process\n"
    \o "        \n"
    \o "    Returns:\n"
    \o "        Dictionary with processed results\n"
    \o "        \n"
    \o "    Raises:\n"
    \o "        ValueError: If input data is invalid\n"
    \o "    \"\"\"\n"
    \o "    try:\n"
    \o "        # Validate input\n"
    \o "        if not isinstance(input_data, dict):\n"
    \o "            raise ValueError(\"Input must be a dictionary\")\n"
    \o "        \n"
    \o "        # Process the data\n"
    \o "        result = {\n"
    \o "            \"processed\": True,\n"
    \o "            \"timestamp\": datetime.now().isoformat(),\n"
    \o "            \"data\": input_data.copy()\n"
    \o "        }\n"
    \o "        \n"
    \o "        # Apply transformations\n"
    \o "        if \"items\" in input_data and isinstance(input_data[\"items\"], list):\n"
    \o "            result[\"data\"][\"items\"] = [\n"
    \o "                {**item, \"processed\": True} \n"
    \o "                for item in input_data[\"items\"]\n"
    \o "            ]\n"
    \o "        \n"
    \o "        return result\n"
    \o "        \n"
    \o "    except Exception as e:\n"
    \o "        return {\"error\": str(e)}\n"
    \o "\n"
    \o "# Usage example\n"
    \o "if __name__ == \"__main__\":\n"
    \o "    sample_data = {\"items\": [{\"id\": 1, \"name\": \"test\"}]}\n"
    \o "    result = process_data(sample_data)\n"
    \o "    print(json.dumps(result, indent=2))"

\* page.tsx lines 234-312: the template literal, line by line.
TplPythonClass(prompt) ==
       "# Generated Python class based on: \""
    \o prompt
    \o "\"\n"
    \o "from typing import List, Dict, Any, Optional\n"
    \o "from datetime import datetime\n"
    \o "import logging\n"
    \o "\n"
    \o "class DataProcessor:\n"
    \o "    \"\"\"\n"
    \o "    A class for processing and managing data operations.\n"
    \o "    \"\"\"\n"
    \o "    \n"
    \o "    def __init__(self, config: Optional[Dict[str, Any]] = None):\n"
    \o "        \"\"\"\n"
    \o "        Initialize the DataProcessor.\n"
    \o "        \n"
    \o "        Args:\n"
    \o "            config: Optional configuration dictionary\n"
    \o "        \"\"\"\n"
    \o "        self.config = config or {}\n"
    \o "        self.processed_items: List[Dict[str, Any]] = []\n"
    \o "        self.logger = logging.getLogger(__name__)\n"
    \o "        \n"
    \o "    def add_item(self, item: Dict[str, Any]) -> bool:\n"
    \o "        \"\"\"\n"
    \o "        Add an item to be processed.\n"
    \o "        \n"
    \o "        Args:\n"
    \o "            item: Dictionary containing item data\n"
    \o "            \n"
    \o "        Returns:\n"
    \o "            True if item was added successfully\n"
    \o "        \"\"\"\n"
    \o "        try:\n"
    \o "            validated_item = self._validate_item(item)\n"
    \o "            self.processed_items.append(validated_item)\n"
    \o "            self.logger.info(f\"Added item: {validated_item.get('id', 'unknown')}\")\n"
    \o "            return True\n"
    \o "        except Exception as e:\n"
    \o "            self.logger.error(f\"Failed to add item: {e}\")\n"
    \o "            return False\n"
    \o "    \n"
    \o "    def process_all(self) -> List[Dict[str, Any]]:\n"
    \o "        \"\"\"\n"
    \o "        Process all added items.\n"
    \o "        \n"
    \o "        Returns:\n"
    \o "            List of processed items\n"
    \o "        \"\"\"\n"
    \o "        results = []\n"
    \o "        for item in self.processed_items:\n"
    \o "            processed_item = self._process_item(item)\n"
    \o "            results.append(processed_item)\n"
    \o "        \n"
    \o "        return results\n"
    \o "    \n"
    \o "    def _validate_item(self, item: Dict[str, Any]) -> Dict[str, Any]:\n"
    \o "        \"\"\"Validate and prepare item for processing.\"\"\"\n"
    \o "        if not isinstance(item, dict):\n"
    \o "            raise ValueError(\"Item must be a dictionary\")\n"
    \o "        \n"
    \o "        return {\n"
    \o "            **item,\n"
    \o "            \"added_at\": datetime.now().isoformat(),\n"
    \o "            \"status\": \"pending\"\n"
    \o "        }\n"
    \o "    \n"
    \o "    def _process_item(self, item: Dict[str, Any]) -> Dict[str, Any]:\n"
    \o "        \"\"\"Process a single item.\"\"\"\n"
    \o "        return {\n"
    \o "            **item,\n"
    \o "            \"processed_at\": datetime.now().isoformat(),\n"
    \o "            \"status\": \"completed\"\n"
    \o "        }\n"
    \o "\n"
    \o "# Usage example\n"
    \o "if __name__ == \"__main__\":\n"
    \o "    processor = DataProcessor({\"debug\": True})\n"
    \o "    processor.add_item({\"id\": 1, \"name\": \"test item\"})\n"
    \o "    results = processor.process_all()\n"
    \o "    print(results)"

\* page.tsx lines 318-392: the template literal, line by line.
TplJavaClass(prompt) ==
       "// Generated Java class based on: \""
    \o prompt
    \o "\"\n"
    \o "import java.time.LocalDateTime;\n"
    \o "import java.time.format.DateTimeFormatter;\n"
    \o "import java.util.*;\n"
    \o "import java.util.logging.Logger;\n"
    \o "\n"
    \o "public class DataProcessor {\n"
    \o "    private static final Logger logger = Logger.getLogger(DataProcessor.class.getName());\n"
    \o "    private final Map<String, Object> config;\n"
    \o "    private final List<Map<String, Object>> processedItems;\n"
    \o "    \n"
    \o "    public DataProcessor() {\n"
    \o "        this(new HashMap<>());\n"
    \o "    }\n"
    \o "    \n"
    \o "    public DataProcessor(Map<String, Object> config) {\n"
    \o "        this.config = config;\n"
    \o "        this.processedItems = new ArrayList<>();\n"
    \o "    }\n"
    \o "    \n"
    \o "    public boolean addItem(Map<String, Object> item) {\n"
    \o "        try {\n"
    \o "            Map<String, Object> validatedItem = validateItem(item);\n"
    \o "            processedItems.add(validatedItem);\n"
    \o "            logger.info(\"Added item: \" + validatedItem.getOrDefault(\"id\", \"unknown\"));\n"
    \o "            return true;\n"
    \o "        } catch (Exception e) {\n"
    \o "            logger.severe(\"Failed to add item: \" + e.getMessage());\n"
    \o "            return false;\n"
    \o "        }\n"
    \o "    }\n"
    \o "    \n"
    \o "    public List<Map<String, Object>> processAll() {\n"
    \o "        List<Map<String, Object>> results = new ArrayList<>();\n"
    \o "        for (Map<String, Object> item : processedItems) {\n"
    \o "            Map<String, Object> processedItem = processItem(item);\n"
    \o "            results.add(processedItem);\n"
    \o "        }\n"
    \o "        return results;\n"
    \o "    }\n"
    \o "    \n"
    \o "    private Map<String, Object> validateItem(Map<String, Object> item) {\n"
    \o "        if (item == null) {\n"
    \o "            throw new IllegalArgumentException(\"Item cannot be null\");\n"
    \o "        }\n"
    \o "        \n"
    \o "        Map<String, Object> validatedItem = new HashMap<>(item);\n"
    \o "        validatedItem.put(\"addedAt\", LocalDateTime.now().format(DateTimeFormatter.ISO_LOCAL_DATE_TIME));\n"
    \o "        validatedItem.put(\"status\", \"pending\");\n"
    \o "        \n"
    \o "        return validatedItem;\n"
    \o "    }\n"
    \o "    \n"
    \o "    private Map<String, Object> processItem(Map<String, Object> item) {\n"
    \o "        Map<String, Object> processedItem = new HashMap<>(item);\n"
    \o "        processedItem.put(\"processedAt\", LocalDateTime.now().format(DateTimeFormatter.ISO_LOCAL_DATE_TIME));\n"
    \o "        processedItem.put(\"status\", \"completed\");\n"
    \o "        \n"
    \o "        return processedItem;\n"
    \o "    }\n"
    \o "    \n"
    \o "    // Usage example\n"
    \o "    public static void main(String[] args) {\n"
    \o "        DataProcessor processor = new DataProcessor();\n"
    \o "        \n"
    \o "        Map<String, Object> item = new HashMap<>();\n"
    \o "        item.put(\"id\", 1);\n"
    \o "        item.put(\"name\", \"test item\");\n"
    \o "        \n"
    \o "        processor.addItem(item);\n"
    \o "        List<Map<String, Object>> results = processor.processAll();\n"
    \o "        \n"
    \o "        System.out.println(results);\n"
    \o "    }\n"
    \o "}"

\* page.tsx lines 397-401: the template literal, line by line.
TplFallback(prompt, language, type) ==
       "// Generated "
    \o language
    \o " "
    \o type
    \o " based on: \""
    \o prompt
    \o "\"\n"
    \o "// This is a placeholder implementation\n"
    \o "// Please provide more specific requirements for better code generation\n"
    \o "\n"
    \o "console.log(\"Generated code for: "
    \o prompt
    \o "\");"
\* generateMockCode without its last return: no template, no code.
generateMockCodeNoDefault(prompt, language, type) ==
    IF language = "javascript" /\ type = "function" THEN TplJavascriptFunction(prompt)
    ELSE IF language = "javascript" /\ type = "api" THEN TplJavascriptApi(prompt)
    ELSE IF language = "python" /\ type = "function" THEN TplPythonFunction(prompt)
    ELSE IF language = "python" /\ type = "class" THEN TplPythonClass(prompt)
    ELSE IF language = "java" /\ type = "class" THEN TplJavaClass(prompt)
    ELSE ""

\* generateMockCode rendering the trimmed prompt.
generateMockCodeTrimmed(prompt, language, type) ==
    IF language = "javascript" /\ type = "function" THEN TplJavascriptFunction(trim(prompt))
    ELSE IF language = "javascript" /\ type = "api" THEN TplJavascriptApi(trim(prompt))
    ELSE IF language = "python" /\ type = "function" THEN TplPythonFunction(trim(prompt))
    ELSE IF language = "python" /\ type = "class" THEN TplPythonClass(trim(prompt))
    ELSE IF language = "java" /\ type = "class" THEN TplJavaClass(trim(prompt))
    ELSE TplFallback(trim(prompt), language, type)

\* generateMockCode: the (language, type) branches in source order, then the
\* default fallback.  lowerPrompt (prompt.toLowerCase()) is computed and never used.
generateMockCode(prompt, language, type) ==
    IF language = "javascript" /\ type = "function" THEN TplJavascriptFunction(prompt)
    ELSE IF language = "javascript" /\ type = "api" THEN TplJavascriptApi(prompt)
    ELSE IF language = "python" /\ type = "function" THEN TplPythonFunction(prompt)
    ELSE IF language = "python" /\ type = "class" THEN TplPythonClass(prompt)
    ELSE IF language = "java" /\ type = "class" THEN TplJavaClass(prompt)
    ELSE TplFallback(prompt, language, type)

\* The (language, type) pairs that have a template of their own.
Catalog ==
    { <<"javascript", "function">>, <<"javascript", "api">>, <<"python", "function">>,
      <<"python", "class">>, <<"java", "class">> }

(* ------------------------------- export ------------------------------- *)

\* The extensions object literal of getFileExtension.
extensions ==
    [ javascript |-> "js", typescript |-> "ts", python |-> "py", java |-> "java",
      go |-> "go", rust |-> "rs", cpp |-> "cpp", csharp |-> "cs" ]

\* The properties every object literal inherits from Object.prototype.
ObjectPrototype ==
    { "constructor", "hasOwnProperty", "isPrototypeOf", "propertyIsEnumerable",
      "toLocaleString", "toString", "valueOf", "__proto__",
      "__defineGetter__", "__defineSetter__", "__lookupGetter__", "__lookupSetter__" }

\* extensions[language]: an own property, else an inherited one (a function, or
\* Object.prototype itself for __proto__; written as a template literal prints
\* it), else undefined.
extensionsAt(language) ==
    IF language \in DOMAIN extensions THEN extensions[language]
    ELSE IF language = "__proto__" THEN "[object Object]"
    ELSE IF language = "constructor" THEN "function Object() { [native code] }"
    ELSE IF language \in ObjectPrototype THEN "function " \o language \o "() { [native code] }"
    ELSE Undefined

\* getFileExtension: extensions[language] || "txt"; every value above but
\* undefined is truthy.
getFileExtension(language) ==
    IF extensionsAt(language) # Undefined THEN extensionsAt(language) ELSE "txt"

\* downloadCode: the a.download file name.
downloadCode(code) ==
    "generated-" \o code.type \o "-" \o code.id \o "." \o getFileExtension(code.language)

(* ---------------------------- notifications --------------------------- *)

\* What useToast() returns: an object whose only property is showToast.
useToast == [showToast |-> "showToast"]

\* const { toast } = useToast(): the property named toast, undefined when the
\* object has none.
toast == IF "toast" \in DOMAIN useToast THEN useToast["toast"] ELSE Undefined

\* showToast: the text handed to alert(); a missing option prints as undefined.
showToast(options) ==
    (IF "type" \in DOMAIN options THEN "[" \o options.type \o "] " ELSE "")
        \o (IF "message" \in DOMAIN options THEN options.message ELSE "undefined")

\* The options of the two toast calls of generateCode.
PromptRequired ==
    [ title |-> "Prompt Required",
      description |-> "Please enter a description of what you want to generate.",
      variant |-> "destructive" ]

CodeGenerated(language, type) ==
    [ title |-> "Code Generated",
      description |-> language \o " " \o type \o " has been generated successfully." ]

(* -------------------------------- state ------------------------------- *)

VARIABLES
    prompt,            \* useState(""): the description input
    selectedLanguage,  \* useState("javascript")
    selectedType,      \* useState("function")
    isGenerating,      \* useState(false): the in-flight flag, disables the button
    generatedCodes,    \* useState([]): the history, most recent first
    now,               \* Date.now(), in ticks
    timers,            \* generateCode calls suspended at the await, in timer order
    run,               \* the generateCode continuation that is executing, or NoRun
    alerts,            \* the toast calls that were displayed, in order
    thrown,            \* generateCode promises rejected with a TypeError
    outcome,           \* outcome[r]: the branch invocation r of generateCode took
    owner,             \* owner[i]: the invocation that appended generatedCodes[i]
    submitted,         \* submitted[r]: the input the page showed when accepted invocation r was made
    fnIn,              \* the function application under test (SpecPure)
    fnOut              \* its result (SpecPure)

vars ==
    << prompt, selectedLanguage, selectedType, isGenerating, generatedCodes, now,
       timers, run, alerts, thrown, outcome, owner, submitted, fnIn, fnOut >>

pageState == << prompt, selectedLanguage, selectedType, isGenerating, generatedCodes >>
ghosts == << outcome, owner, submitted >>

\* generateCode invocations so far, those that took the empty-prompt branch,
\* and those that went on to the timer.
calls == Len(outcome)
rejected == Cardinality({r \in DOMAIN outcome : outcome[r] = "rejected"})
Accepted == {r \in DOMAIN outcome : outcome[r] = "accepted"}
fnVars == << fnIn, fnOut >>

NoCall == [fn |-> "none"]

Init ==
    /\ prompt = ""
    /\ selectedLanguage = "javascript"
    /\ selectedType = "function"
    /\ isGenerating = FALSE
    /\ generatedCodes = << >>
    /\ now = 0
    /\ timers = << >>
    /\ run = NoRun
    /\ alerts = << >>
    /\ thrown = 0
    /\ outcome = << >>
    /\ submitted = << >>
    /\ owner = << >>
    /\ fnIn = NoCall
    /\ fnOut = Undefined

(* ------------------------------- inputs ------------------------------- *)

\* Descriptions the user types: empty, whitespace only, and one that passes
\* the validation and has blanks around it.
Prompts == {"", " \t\n", " sort a list "}
\* The Select items the user picks from in Spec.
PickLanguages == {"javascript", "go"}
PickTypes == {"function", "class"}
\* The description typed in SpecOverlap and FairOverlap (the input starts empty
\* and every completed call empties it again).
OverlapPrompts == {" sort a list "}
\* The description typed in SpecRetention.
RetentionPrompts == {"a"}
\* Arguments of the functions applied in SpecPure: the enumerated values, and
\* strings outside the enumerations.
AnyLanguages == languages \cup {"kotlin", "Python", "", "constructor", "toString", "__proto__"}
AnyTypes == codeTypes \cup {"macro", ""}
AnyPrompts == {"", " sort a list ", "say \"hi\"", "${prompt}"}
AnyTimes == {0, 7}

(* ------------------------------ handlers ------------------------------ *)

\* The updater with the new artifact put last: [...prev, newCode].
prependTail(newCode, prev) == prev \o <<newCode>>

\* The updater replacing the history: [newCode].
prependReplace(newCode, prev) == <<newCode>>

\* setGeneratedCodes((prev) => [newCode, ...prev])
prepend(newCode, prev) == <<newCode>> \o prev

\* toast({...}): with toast undefined the call throws TypeError, which
\* rejects the promise generateCode returned; otherwise the hook's function
\* displays the call.
callToast(options) ==
    IF toast = Undefined
    THEN /\ thrown' = thrown + 1
         /\ UNCHANGED alerts
    ELSE /\ alerts' = Append(alerts, [title |-> options.title, text |-> showToast(options)])
         /\ UNCHANGED thrown

\* Textarea onChange and the quick prompt buttons: setPrompt(value).
setPrompt(value) ==
    /\ run = NoRun
    /\ prompt' = value
    /\ UNCHANGED << selectedLanguage, selectedType, isGenerating, generatedCodes, now,
                    timers, run, alerts, thrown, ghosts, fnVars >>

\* Select onValueChange: setSelectedLanguage(value).
setSelectedLanguage(value) ==
    /\ run = NoRun
    /\ selectedLanguage' = value
    /\ UNCHANGED << prompt, selectedType, isGenerating, generatedCodes, now,
                    timers, run, alerts, thrown, ghosts, fnVars >>

\* Select onValueChange: setSelectedType(value).
setSelectedType(value) ==
    /\ run = NoRun
    /\ selectedType' = value
    /\ UNCHANGED << prompt, selectedLanguage, isGenerating, generatedCodes, now,
                    timers, run, alerts, thrown, ghosts, fnVars >>

\* generateCode up to its await: the validation branch, or setIsGenerating(true)
\* and the timer.  The suspended call keeps the prompt, language and type of the
\* render it was created in.  budget and horizon bound the exploration.
generateCode(budget, horizon) ==
    /\ run = NoRun
    /\ calls < budget
    /\ IF trim(prompt) = ""
       THEN /\ callToast(PromptRequired)
            /\ outcome' = Append(outcome, "rejected")
            /\ submitted' = Append(submitted, NoCall)
            /\ UNCHANGED << pageState, now, timers, run, owner, fnVars >>
       ELSE /\ now + Delay <= horizon
            /\ outcome' = Append(outcome, "accepted")
            /\ submitted' = Append(submitted, [ prompt |-> prompt,
                                                language |-> selectedLanguage,
                                                type |-> selectedType ])
            /\ isGenerating' = TRUE
            /\ timers' = Append(timers, [ req |-> calls + 1, prompt |-> prompt,
                                          language |-> selectedLanguage,
                                          type |-> selectedType, due |-> now + Delay ])
            /\ UNCHANGED << prompt, selectedLanguage, selectedType, generatedCodes, now,
                            run, alerts, thrown, owner, fnVars >>

\* The button without its disabled attribute.
ClickGenerateUngated(budget, horizon) == generateCode(budget, horizon)

\* <Button onClick={generateCode} disabled={isGenerating}>: a disabled button
\* delivers no click.
ClickGenerate(budget, horizon) ==
    /\ ~isGenerating
    /\ generateCode(budget, horizon)

\* Time passes.
Tick(horizon) ==
    /\ run = NoRun
    /\ now < horizon
    /\ now' = now + 1
    /\ UNCHANGED << pageState, timers, run, alerts, thrown, ghosts, fnVars >>

\* A generateCode that reads the input and the selection when it resumes
\* instead of the values its closure holds.
newCodeOfCurrent(t, at) ==
    [ id |-> ToString(at),
      language |-> selectedLanguage,
      type |-> selectedType,
      code |-> generateMockCode(prompt, selectedLanguage, selectedType),
      description |-> prompt,
      timestamp |-> at ]

\* The artifact generateCode builds after the await, from the prompt,
\* selectedLanguage and selectedType of the render in which it was invoked.
newCodeOf(t, at) ==
    [ id |-> ToString(at),
      language |-> t.language,
      type |-> t.type,
      code |-> generateMockCode(t.prompt, t.language, t.type),
      description |-> t.prompt,
      timestamp |-> at ]

\* The timer of the oldest suspended call fires, no earlier than its delay:
\* the call resumes, renders and builds newCode.
generateCodeResume ==
    /\ run = NoRun
    /\ timers # << >>
    /\ Head(timers).due <= now
    /\ run' = [ pc |-> "append", req |-> Head(timers).req,
                language |-> Head(timers).language, type |-> Head(timers).type,
                newCode |-> newCodeOf(Head(timers), now) ]
    /\ timers' = Tail(timers)
    /\ UNCHANGED << pageState, now, alerts, thrown, ghosts, fnVars >>

\* setGeneratedCodes((prev) => [newCode, ...prev])
generateCodeAppend ==
    /\ run.pc = "append"
    /\ generatedCodes' = prepend(run.newCode, generatedCodes)
    /\ owner' = prepend(run.req, owner)
    /\ run' = [run EXCEPT !.pc = "clear"]
    /\ UNCHANGED << prompt, selectedLanguage, selectedType, isGenerating, now, timers,
                    alerts, thrown, outcome, submitted, fnVars >>

\* setPrompt("")
generateCodeClear ==
    /\ run.pc = "clear"
    /\ prompt' = ""
    /\ run' = [run EXCEPT !.pc = "idle"]
    /\ UNCHANGED << selectedLanguage, selectedType, isGenerating, generatedCodes, now,
                    timers, alerts, thrown, ghosts, fnVars >>

\* setIsGenerating(false)
generateCodeIdle ==
    /\ run.pc = "idle"
    /\ isGenerating' = FALSE
    /\ run' = [run EXCEPT !.pc = "toast"]
    /\ UNCHANGED << prompt, selectedLanguage, selectedType, generatedCodes, now,
                    timers, alerts, thrown, ghosts, fnVars >>

\* toast({ title: "Code Generated", ... }), the last statement.
generateCodeToast ==
    /\ run.pc = "toast"
    /\ callToast(CodeGenerated(run.language, run.type))
    /\ run' = NoRun
    /\ UNCHANGED << pageState, now, timers, ghosts, fnVars >>

\* The statements of a resumed call run to completion, one after the other.
Continue ==
    \/ generateCodeAppend
    \/ generateCodeClear
    \/ generateCodeIdle
    \/ generateCodeToast

\* Time passes while a call waits for its timer (SpecRetention: every timer
\* fires as soon as it is due).
TickUntilDue ==
    /\ timers # << >>
    /\ Head(timers).due > now
    /\ Tick(Head(timers).due)

EditPrompt == \E value \in Prompts : setPrompt(value)

EditSelection ==
    \/ \E value \in PickLanguages : setSelectedLanguage(value)
    \/ \E value \in PickTypes : setSelectedType(value)

(* --------------------------- specifications --------------------------- *)

\* The page: the Generate button is disabled while isGenerating.
Next ==
    \/ EditPrompt
    \/ EditSelection
    \/ ClickGenerate(MaxCalls, MaxNow)
    \/ Tick(MaxNow)
    \/ generateCodeResume
    \/ Continue

Spec == Init /\ [][Next]_vars

\* generateCode invoked whenever its caller likes, also while earlier calls
\* are suspended: the handler without the button that guards it.
NextOverlap ==
    \/ \E value \in OverlapPrompts : setPrompt(value)
    \/ generateCode(MaxCalls, MaxNow)
    \/ Tick(MaxNow)
    \/ generateCodeResume
    \/ Continue

SpecOverlap == Init /\ [][NextOverlap]_vars

\* Time passes, due timers fire, and a resumed call runs to its end.
FairOverlap ==
    /\ SpecOverlap
    /\ WF_vars(Tick(MaxNow))
    /\ WF_vars(generateCodeResume)
    /\ WF_vars(Continue)

\* The page used for many generations in a row.
NextRetention ==
    \/ \E value \in RetentionPrompts : setPrompt(value)
    \/ ClickGenerate(RetentionCalls, RetentionCalls * Delay)
    \/ TickUntilDue
    \/ generateCodeResume
    \/ Continue

SpecRetention == Init /\ [][NextRetention]_vars

\* generateMockCode(prompt, language, type) applied to any three strings.
applyGenerateMockCode(p, language, type) ==
    /\ fnIn = NoCall
    /\ fnIn' = [fn |-> "generateMockCode", prompt |-> p, language |-> language, type |-> type, at |-> 0]
    /\ fnOut' = generateMockCode(p, language, type)
    /\ UNCHANGED << pageState, now, timers, run, alerts, thrown, ghosts >>

\* The artifact built from any three strings at any time.
applyNewCode(p, language, type, at) ==
    /\ fnIn = NoCall
    /\ fnIn' = [fn |-> "newCode", prompt |-> p, language |-> language, type |-> type, at |-> at]
    /\ fnOut' = newCodeOf([prompt |-> p, language |-> language, type |-> type], at)
    /\ UNCHANGED << pageState, now, timers, run, alerts, thrown, ghosts >>

\* getFileExtension(language) applied to any string.
applyGetFileExtension(language) ==
    /\ fnIn = NoCall
    /\ fnIn' = [fn |-> "getFileExtension", prompt |-> "", language |-> language, type |-> "", at |-> 0]
    /\ fnOut' = getFileExtension(language)
    /\ UNCHANGED << pageState, now, timers, run, alerts, thrown, ghosts >>

\* downloadCode(code) applied to the artifact built from any three strings.
applyDownloadCode(p, language, type, at) ==
    /\ fnIn = NoCall
    /\ fnIn' = [fn |-> "downloadCode", prompt |-> p, language |-> language, type |-> type, at |-> at]
    /\ fnOut' = downloadCode(newCodeOf([prompt |-> p, language |-> language, type |-> type], at))
    /\ UNCHANGED << pageState, now, timers, run, alerts, thrown, ghosts >>

NextPure ==
    \/ \E p \in AnyPrompts, l \in AnyLanguages, t \in AnyTypes : applyGenerateMockCode(p, l, t)
    \/ \E p \in AnyPrompts, l \in AnyLanguages, t \in AnyTypes, at \in AnyTimes : applyNewCode(p, l, t, at)
    \/ \E l \in AnyLanguages : applyGetFileExtension(l)
    \/ \E l \in AnyLanguages, t \in AnyTypes, at \in AnyTimes : applyDownloadCode(" sort a list ", l, t, at)

\* The pure functions of the page, each applied once to arguments drawn from
\* the sets above.
SpecPure == Init /\ [][NextPure]_vars

(* ------------------------------- claims ------------------------------- *)

\* The toast calls displayed with the title of the success notification.
SuccessAlerts == Cardinality({i \in DOMAIN alerts : alerts[i].title = "Code Generated"})

\* No call is suspended and none is executing.
Quiescent == timers = << >> /\ run = NoRun

\* The artifacts invocation r has in the history.
Appended(r) == Cardinality({i \in DOMAIN owner : owner[i] = r})

\* Invocation r waits for its timer, or has resumed and not yet appended.
InFlight(r) ==
    \/ \E i \in DOMAIN timers : timers[i].req = r
    \/ run.pc = "append" /\ run.req = r

\* C1: a generateCode call whose description is empty or only whitespace
\* leaves generatedCodes as it is and displays exactly one notification, the
\* validation one.
C1_ValidationGate ==
    [][ rejected' = rejected + 1 =>
          /\ generatedCodes' = generatedCodes
          /\ Len(alerts') = Len(alerts) + 1
          /\ alerts'[Len(alerts')].title = "Prompt Required" ]_vars

\* C2: the history never holds more than the documented cap of entries (the
\* entry after the cap evicts the earliest one).
C2_BoundedRetention == Len(generatedCodes) <= MaxEntries

\* C3: every change of the history puts one new artifact at its head and
\* leaves the entries already there in their order, so an artifact appended
\* later stands before one appended earlier.
C3_LedgerOrdering ==
    [][ generatedCodes' # generatedCodes =>
          /\ Len(generatedCodes') = Len(generatedCodes) + 1
          /\ SubSeq(generatedCodes', 2, Len(generatedCodes')) = generatedCodes
          /\ owner'[1] \notin {owner[i] : i \in DOMAIN owner} ]_vars

\* Three artifacts, the latest invocation first.
C3_Witness ==
    /\ Len(generatedCodes) = 3
    /\ owner[1] > owner[2]
    /\ owner[2] > owner[3]
    /\ generatedCodes[1].timestamp > generatedCodes[3].timestamp

\* C4: the artifacts of the history have pairwise distinct ids, also two
\* generated from the same language, type and description.
C4_DistinctIds ==
    \A i, j \in DOMAIN generatedCodes :
        i # j => generatedCodes[i].id # generatedCodes[j].id

\* Two artifacts of the same language, type and description are in the
\* history, with different ids.
C4_Witness ==
    \E i, j \in DOMAIN generatedCodes :
        /\ i # j
        /\ generatedCodes[i].language = generatedCodes[j].language
        /\ generatedCodes[i].type = generatedCodes[j].type
        /\ generatedCodes[i].description = generatedCodes[j].description
        /\ generatedCodes[i].id # generatedCodes[j].id

\* Each accepted invocation has no artifact while it is in flight and exactly
\* one afterwards; the history holds nothing else.
C5_Safety ==
    /\ Len(owner) = Len(generatedCodes)
    /\ \A i \in DOMAIN owner : owner[i] \in Accepted
    /\ \A r \in Accepted : Appended(r) = IF InFlight(r) THEN 0 ELSE 1
    /\ Quiescent => Len(generatedCodes) = Cardinality(Accepted)

\* C5: with overlapping calls, every accepted call eventually appends one
\* artifact of its own, none is lost or overwritten, and once all have
\* completed the history has one entry per accepted call.
C5_ConcurrentRequests ==
    /\ []C5_Safety
    /\ \A r \in 1..MaxCalls : (r \in Accepted) ~> (Appended(r) = 1)

\* Two calls that completed in the same tick, so that they overlapped, and
\* both artifacts are in the history.
C5_Witness ==
    /\ Quiescent
    /\ Len(generatedCodes) >= 2
    /\ generatedCodes[1].timestamp = generatedCodes[2].timestamp
    /\ owner[1] # owner[2]

\* C6: the history is in completion order, the later completion first.
C6_CompletionOrder ==
    \A i, j \in DOMAIN generatedCodes :
        i < j => /\ generatedCodes[i].timestamp >= generatedCodes[j].timestamp
                 /\ owner[i] # owner[j]

\* Two calls overlapped (they completed less than the latency apart) and the
\* one that finished later is first.
C6_Witness ==
    /\ Len(generatedCodes) >= 2
    /\ generatedCodes[1].timestamp > generatedCodes[2].timestamp
    /\ generatedCodes[1].timestamp - generatedCodes[2].timestamp < Delay

\* C7: generateMockCode returns a non-empty string for every (language, type)
\* pair and every description, also for pairs without a template and for
\* strings outside the two enumerations; the code field of an artifact built
\* from them is therefore never empty.
C7_RenderTotal ==
    /\ fnIn.fn = "generateMockCode" => Len(fnOut) > 0
    /\ fnIn.fn = "newCode" => Len(fnOut.code) > 0

\* A render of strings outside the enumerations with an empty description.
C7_Witness ==
    /\ fnIn.fn = "generateMockCode"
    /\ fnIn.language = "kotlin"
    /\ fnIn.type = "macro"
    /\ fnIn.prompt = ""
    /\ Len(fnOut) > 0

\* C8: for every non-empty description the rendered code contains the
\* description verbatim, for the pairs with a template and for the fallback.
C8_DescriptionEmbedded ==
    (fnIn.fn = "generateMockCode" /\ fnIn.prompt # "") => Contains(fnOut, fnIn.prompt)

\* A description with blanks around it rendered by a template of the catalog.
C8_Witness ==
    /\ fnIn.fn = "generateMockCode"
    /\ <<fnIn.language, fnIn.type>> \in Catalog
    /\ fnIn.prompt = " sort a list "
    /\ Contains(fnOut, " sort a list ")

\* The extension the claim gives each enumerated language.
C9_Extension(language) ==
    CASE language = "javascript" -> "js"
      [] language = "typescript" -> "ts"
      [] language = "python" -> "py"
      [] language = "java" -> "java"
      [] language = "go" -> "go"
      [] language = "rust" -> "rs"
      [] language = "cpp" -> "cpp"
      [] language = "csharp" -> "cs"
      [] OTHER -> "txt"

\* C9: getFileExtension maps python to py and each enumerated language to its
\* extension, maps every other string to txt, and the download file name is
\* generated-<codeType>-<id>.<extension>.
C9_ExtensionResolution ==
    /\ fnIn.fn = "getFileExtension" => fnOut = C9_Extension(fnIn.language)
    /\ fnIn.fn = "downloadCode" =>
         fnOut = "generated-" \o fnIn.type \o "-" \o ToString(fnIn.at) \o "."
                     \o C9_Extension(fnIn.language)

\* C10: an accepted call appends, clears the input, displays the success
\* notification and only then clears isGenerating: the notification is never
\* displayed before its artifact is in the history, and it has been displayed
\* when the flag is cleared.
C10_StepOrder ==
    /\ [][ generatedCodes' # generatedCodes =>
              isGenerating /\ SuccessAlerts' = SuccessAlerts ]_vars
    /\ [][ SuccessAlerts' # SuccessAlerts =>
              /\ prompt = ""
              /\ isGenerating
              /\ SuccessAlerts' = Len(generatedCodes) ]_vars
    /\ [][ (isGenerating /\ ~isGenerating') =>
              /\ prompt = ""
              /\ SuccessAlerts = Len(generatedCodes) ]_vars


\* C11: a generateCode call rejected for an empty or whitespace description
\* leaves the input, the selected language and type, isGenerating and the
\* history exactly as they were, starts no wait, and its single effect is the
\* display of the one validation notification: nothing is thrown.
C11_ValidationFrame ==
    [][ rejected' = rejected + 1 =>
          /\ pageState' = pageState
          /\ << timers, run, now >>' = << timers, run, now >>
          /\ thrown' = thrown
          /\ alerts' = Append(alerts, [ title |-> PromptRequired.title,
                                        text |-> showToast(PromptRequired) ]) ]_vars

\* The artifact records what accepted invocation r was made with.
Captured(code, r) ==
    /\ r \in Accepted
    /\ code.description = submitted[r].prompt
    /\ code.language = submitted[r].language
    /\ code.type = submitted[r].type
    /\ code.code = generateMockCode(submitted[r].prompt, submitted[r].language,
                                    submitted[r].type)

\* C12: the artifact of an invocation holds, verbatim, the description, the
\* language and the type the page showed when generateCode was invoked, and
\* its code is generateMockCode of those three, whatever the input and the
\* selection were changed to during the wait; and every artifact of the
\* history is still there, with every field as it was, after any step.
C12_SubmissionCapture ==
    /\ [](\A i \in DOMAIN generatedCodes : Captured(generatedCodes[i], owner[i]))
    /\ [][ \A i \in DOMAIN generatedCodes :
             \E j \in DOMAIN generatedCodes' :
                /\ owner'[j] = owner[i]
                /\ generatedCodes'[j] = generatedCodes[i] ]_vars

\* An artifact has just been appended whose description, language and type
\* are those of its invocation and all differ from what the page shows now:
\* the input and both selections were changed during the wait.
C12_Witness ==
    /\ run.pc = "clear"
    /\ Captured(generatedCodes[1], run.req)
    /\ generatedCodes[1].description # prompt
    /\ generatedCodes[1].language # selectedLanguage
    /\ generatedCodes[1].type # selectedType

\* Accepted invocation r has not finished: it waits for its timer, or it has
\* resumed and not yet executed setIsGenerating(false).
Unfinished(r) ==
    \/ InFlight(r)
    \/ run.pc \in {"clear", "idle"} /\ run.req = r

====
